---- MODULE Spec2Model ----
(***************************************************************************)
(* A model of the sphinx blog extension `blogpost`: the directives that    *)
(* fill the build environment while documents are read, the aggregation    *)
(* of the posts by category, tag and year, the identifiers given to the    *)
(* group keys, the previous/next navigation, and the summary shortening.   *)
(*                                                                         *)
(* The build environment `env` of sphinx is modelled by one variable per   *)
(* attribute the extension sets on it, plus env_attrs, the set of          *)
(* attribute names for which hasattr(env, name) holds.                     *)
(***************************************************************************)
EXTENDS Integers, Sequences, FiniteSets, TLC

(***************************************************************************)
(* Bounds of the model.                                                    *)
(***************************************************************************)
\* posts of one build under SpecPosts
MaxPosts == 3
\* posts of one build under Spec
MaxBuildPosts == 2
\* the largest value of the length option of the recent-posts directive
MaxRecent == 2
\* characters drawn freely at each end of a summary text
MaxEdge == 2

\* The instants a time option can name. Instants 2 and 3 fall in one year.
Times == 1 .. 3
\* A time option that does not parse under date_format (a missing option
\* gives '', which does not parse either).
BadTime == 0
FirstYear == 2017
TicksPerYear == 2

Categories == {"a", "b", "c"}
Tags == {"x", "y"}

\* datetime.year of a parsed time option
YearOf(time) == FirstYear + (time \div TicksPerYear)

\* Code points of the characters used in keys: Python orders strings by them.
CodePoint(s) ==
    CASE s = "a" -> 97
      [] s = "b" -> 98
      [] s = "c" -> 99
      [] s = "x" -> 120
      [] s = "y" -> 121
      [] OTHER -> 0

\* The sort key of a group key: a year orders by its value, a name by its
\* (single) character.
StrRank(S) == [k \in S |-> CodePoint(k)]
IntRank(S) == [k \in S |-> k]

(***************************************************************************)
(* sorted(keys): the keys of a dict in ascending order.                    *)
(***************************************************************************)
RECURSIVE sorted_keys(_, _)
sorted_keys(S, rank) ==
    IF S = {} THEN <<>>
    ELSE LET m == CHOOSE x \in S : \A y \in S : rank[x] <= rank[y]
         IN  <<m>> \o sorted_keys(S \ {m}, rank)

Reverse(s) == [i \in 1 .. Len(s) |-> s[Len(s) + 1 - i]]

Range(s) == {s[i] : i \in 1 .. Len(s)}

(***************************************************************************)
(* sorted(items, key=lambda x: x['time'], reverse=True): Python's sort is  *)
(* stable, also with reverse=True, so items of equal time keep the order   *)
(* they had in the input.                                                  *)
(***************************************************************************)
InsertByTime(s, x) ==
    LET k == Cardinality({i \in 1 .. Len(s) : s[i].time >= x.time})
    IN  SubSeq(s, 1, k) \o <<x>> \o SubSeq(s, k + 1, Len(s))

\* A sort that does not keep the input order of equal times.
InsertByTimeUnstable(s, x) ==
    LET k == Cardinality({i \in 1 .. Len(s) : s[i].time > x.time})
    IN  SubSeq(s, 1, k) \o <<x>> \o SubSeq(s, k + 1, Len(s))

RECURSIVE sorted_by_time_unstable(_)
sorted_by_time_unstable(items) ==
    IF items = <<>> THEN <<>>
    ELSE InsertByTimeUnstable(
             sorted_by_time_unstable(SubSeq(items, 1, Len(items) - 1)),
             items[Len(items)])

RECURSIVE sorted_by_time_stable(_)
sorted_by_time_stable(items) ==
    IF items = <<>> THEN <<>>
    ELSE InsertByTime(sorted_by_time_stable(SubSeq(items, 1, Len(items) - 1)),
                      items[Len(items)])

sorted_by_time(items) == sorted_by_time_stable(items)

(***************************************************************************)
(* A dict of lists, as build_*_info fills it: `order` holds the keys in    *)
(* the order they were first inserted, `items` the list of each key.       *)
(***************************************************************************)
EmptyDict == [order |-> <<>>, items |-> <<>>]

Keys(d) == Range(d.order)

\* if key not in d: d[key] = []; d[key].append(item)
DictAppend(d, key, item) ==
    IF key \in Keys(d)
    THEN [d EXCEPT !.items[key] = Append(@, item)]
    ELSE [order |-> Append(d.order, key),
          items |-> IF d.order = <<>> THEN (key :> <<item>>)
                    ELSE d.items @@ (key :> <<item>>)]

\* for key, items in d.items(): d[key] = sorted(items, ...)
SortGroups(d) ==
    [order |-> d.order,
     items |-> IF d.order = <<>> THEN <<>>
               ELSE [k \in Keys(d) |-> sorted_by_time(d.items[k])]]

\* The entry appended to a group for all_posts[i].
Item(posts, i) == [time |-> posts[i].time, post |-> i]

\* The entry appended to archive_flat for all_posts[i].
FlatItem(posts, i) ==
    [time |-> posts[i].time, post |-> i, docname |-> posts[i].docname]

RECURSIVE AppendUnderKeys(_, _, _)
AppendUnderKeys(d, keys, item) ==
    IF keys = <<>> THEN d
    ELSE AppendUnderKeys(DictAppend(d, Head(keys), item), Tail(keys), item)

\* The loop over zip(env.all_posts, references) of build_category_info.
RECURSIVE CollectCategories(_, _)
CollectCategories(posts, n) ==
    IF n = 0 THEN EmptyDict
    ELSE DictAppend(CollectCategories(posts, n - 1),
                    posts[n].category, Item(posts, n))

\* The loops of build_tag_info: every entry of the post's tag list appends.
RECURSIVE CollectTags(_, _)
CollectTags(posts, n) ==
    IF n = 0 THEN EmptyDict
    ELSE AppendUnderKeys(CollectTags(posts, n - 1),
                         posts[n].tags, Item(posts, n))

\* The loop of build_archive_info, for the dict of years.
RECURSIVE CollectYears(_, _)
CollectYears(posts, n) ==
    IF n = 0 THEN EmptyDict
    ELSE DictAppend(CollectYears(posts, n - 1),
                    posts[n].year, Item(posts, n))

\* The loop of build_archive_info, for the flat list.
CollectFlat(posts) == [i \in 1 .. Len(posts) |-> FlatItem(posts, i)]

\* What build_category_info returns.
category_groups(posts) == SortGroups(CollectCategories(posts, Len(posts)))
\* What build_tag_info returns.
tag_groups(posts) == SortGroups(CollectTags(posts, Len(posts)))
\* What build_archive_info returns: archive, archive_flat.
archive_groups(posts) == SortGroups(CollectYears(posts, Len(posts)))
\* The flat list left in the order of the store.
flat_list_unsorted(posts) == CollectFlat(posts)

flat_list(posts) == sorted_by_time(CollectFlat(posts))

(***************************************************************************)
(* Identifiers of group keys: '<kind>-%d' % env.new_serialno(kind), one    *)
(* per key, in the order the loop visits the keys. An identifier is        *)
(* modelled as the pair <<kind, serial number>>.                           *)
(***************************************************************************)
IndexOf(seq, x) == CHOOSE i \in 1 .. Len(seq) : seq[i] = x

\* for key in d (the dict's own order): the keys as first inserted.
id_order_unsorted(d, rank) == d.order

\* for key in sorted(d)
id_order(d, rank) == sorted_keys(Keys(d), rank)

\* Identifiers for every key but the last.
new_ids_but_last(kind, keyseq, serial) ==
    IF Len(keyseq) <= 1 THEN <<>>
    ELSE [k \in Range(SubSeq(keyseq, 1, Len(keyseq) - 1)) |->
             <<kind, serial + IndexOf(keyseq, k) - 1>>]

\* Identifiers made without moving the counter on.
new_ids_same(kind, keyseq, serial) ==
    IF keyseq = <<>> THEN <<>>
    ELSE [k \in Range(keyseq) |-> <<kind, serial>>]

\* The dict the loop `for key in ...: env.<kind>_id[key] = ...` builds when
\* the counter of the kind stands at `serial`.
new_ids(kind, keyseq, serial) ==
    IF keyseq = <<>> THEN <<>>
    ELSE [k \in Range(keyseq) |-> <<kind, serial + IndexOf(keyseq, k) - 1>>]

\* A guard that never finds the identifiers, so that they are rebuilt.
ids_missing_always(attrs, name) == TRUE

\* not hasattr(env, '<kind>_id')
ids_missing(attrs, name) == name \notin attrs

(***************************************************************************)
(* add_next_prev: the loop runs over the whole flat list without a break,  *)
(* so every entry whose time equals the node's time rewrites the links.    *)
(* Indices are 1-based here: Python's i is i - 1, postmax is Len(flat) - 1.*)
(***************************************************************************)
\* Links that stay on the oldest post where the list ends.
Link_unwrapped(node, flat, i) ==
    LET idx_prev == IF i + 1 > Len(flat) THEN Len(flat) ELSE i + 1
        idx_next == IF i - 1 < 1 THEN Len(flat) ELSE i - 1
    IN  [node EXCEPT
           !.prev_text = IF i + 1 > Len(flat) THEN "&olarr; Newest"
                         ELSE "&larr; Previous",
           !.next_text = IF i - 1 < 1 THEN "Oldest &orarr;"
                         ELSE "Next &rarr;",
           !.next = flat[idx_next].docname,
           !.prev = flat[idx_prev].docname]

\* Links that wrap with the labels of the links that do not.
Link_plain(node, flat, i) ==
    LET idx_prev == IF i + 1 > Len(flat) THEN 1 ELSE i + 1
        idx_next == IF i - 1 < 1 THEN Len(flat) ELSE i - 1
    IN  [node EXCEPT
           !.prev_text = "&larr; Previous",
           !.next_text = "Next &rarr;",
           !.next = flat[idx_next].docname,
           !.prev = flat[idx_prev].docname]

Link(node, flat, i) ==
    LET idx_prev == IF i + 1 > Len(flat) THEN 1 ELSE i + 1
        idx_next == IF i - 1 < 1 THEN Len(flat) ELSE i - 1
    IN  [node EXCEPT
           !.prev_text = IF i + 1 > Len(flat) THEN "&olarr; Newest"
                         ELSE "&larr; Previous",
           !.next_text = IF i - 1 < 1 THEN "Oldest &orarr;"
                         ELSE "Next &rarr;",
           !.next = flat[idx_next].docname,
           !.prev = flat[idx_prev].docname]

RECURSIVE add_next_prev_from(_, _, _)
add_next_prev_from(node, flat, i) ==
    IF i > Len(flat) THEN node
    ELSE add_next_prev_from(
             IF node.time = flat[i].time THEN Link(node, flat, i) ELSE node,
             flat, i + 1)

\* An add_next_prev that stops at the first entry with the node's time.
add_next_prev_first(node, flat) ==
    LET found == {i \in 1 .. Len(flat) : flat[i].time = node.time}
    IN  IF found = {} THEN node
        ELSE Link(node, flat, CHOOSE i \in found : \A j \in found : i <= j)

\* An add_next_prev that takes a node whose time is found nowhere for the
\* newest post.
add_next_prev_always(node, flat) ==
    IF \A i \in 1 .. Len(flat) : flat[i].time # node.time
    THEN Link(node, flat, 1)
    ELSE add_next_prev_from(node, flat, 1)

add_next_prev(node, flat) == add_next_prev_from(node, flat, 1)

(***************************************************************************)
(* The state.                                                              *)
(***************************************************************************)
VARIABLES
    \* env: the attributes the extension keeps on the build environment
    env_attrs,          \* the names n with hasattr(env, n)
    all_posts,          \* env.all_posts, the Post Store
    serialno,           \* the counters behind env.new_serialno(kind)
    category_id,        \* env.category_id
    tag_id,             \* env.tag_id
    archive_id,         \* env.archive_id
    category_docname,   \* env.category_docname
    tag_docname,        \* env.tag_docname
    archive_docname,    \* env.archive_docname
    recent_docname,     \* env.recent_docname
    recent_nodes,       \* env.recent_nodes
    \* the nodes the listing directives returned, as the documents they are in
    listing_nodes,
    \* process_blog_posts: the call whose doctree is being written
    fromdocname,        \* its document, "" when no call is pending
    categories,         \* its local `categories`
    tags,               \* its local `tags`
    archive,            \* its local `archive`
    archive_flat,       \* its local `archive_flat`
    doctree,            \* the nodes of its doctree, as it left them
    \* the exception that ended the build, NoError while it runs
    error,
    \* shorten_text: one call
    text,               \* the text passed
    caller,             \* who called, "" before the call
    length,             \* the length passed
    suffix,             \* the suffix passed, the default before the call
    shortened,          \* what it returned
    \* cvs_to_list: one call
    cvs_argument,       \* the argument passed, NoArgument for None
    cvs_value,          \* what it returned
    \* the nodes the last post directive returned
    returned,
    \* html-page-context
    post_directory,     \* config.post_directory
    pagename,           \* the page of the last event, <<>> before the first
    context,            \* the context of that page
    \* add_next_prev: one call
    nav,                \* the node after the call, NoNode before it
    legacy_nav          \* the node after the call of blogpost.py's

envVars == <<env_attrs, all_posts, serialno, category_id, tag_id, archive_id,
             category_docname, tag_docname, archive_docname, recent_docname,
             recent_nodes, listing_nodes>>
idVars == <<serialno, category_id, tag_id, archive_id>>
listingVars == <<category_docname, tag_docname, archive_docname,
                 recent_docname, recent_nodes, listing_nodes>>
resolveVars == <<fromdocname, categories, tags, archive, archive_flat,
                 doctree>>
textVars == <<text, caller, length, suffix, shortened>>
parseVars == <<cvs_argument, cvs_value>>
\* what the listing directives and process_blog_posts have no part in
pageVars == <<post_directory, pagename, context>>
navVars == <<nav, legacy_nav>>
callVars == <<textVars, parseVars, returned, pageVars, navVars>>
vars == <<envVars, resolveVars, error, callVars>>

NoError == [type |-> "", msg |-> "", docname |-> ""]
NoDoctree ==
    [posts |-> <<>>, category_sections |-> <<>>, tag_sections |-> <<>>,
     archive_sections |-> <<>>, recent |-> <<>>]

Running == error = NoError

\* A document is being read: no doctree is between resolving and writing.
Reading == Running /\ fromdocname = ""

Raise(type, msg, docname) ==
    error' = [type |-> type, msg |-> msg, docname |-> docname]

hasattr(name) == name \in env_attrs

InitEnv ==
    /\ env_attrs = {}
    /\ all_posts = <<>>
    /\ serialno = [category |-> 0, tag |-> 0, year |-> 0]
    /\ category_id = <<>>
    /\ tag_id = <<>>
    /\ archive_id = <<>>
    /\ category_docname = ""
    /\ tag_docname = ""
    /\ archive_docname = ""
    /\ recent_docname = ""
    /\ recent_nodes = <<>>
    /\ listing_nodes = [category |-> <<>>, tag |-> <<>>, archive |-> <<>>]

InitResolve ==
    /\ fromdocname = ""
    /\ categories = EmptyDict
    /\ tags = EmptyDict
    /\ archive = EmptyDict
    /\ archive_flat = <<>>
    /\ doctree = NoDoctree

\* suffix='...'
Suffix == <<".", ".", ".">>

InitText ==
    /\ text = <<>>
    /\ caller = ""
    /\ length = 0
    /\ suffix = Suffix
    /\ shortened = <<>>

\* argument is None
NoArgument == <<"None">>

\* 'posts', the default of post_directory
Posts == <<"p", "o", "s", "t", "s">>

\* The context of a page as the builder hands it to html-page-context: the
\* toc is the builder's own, which has no head.
PageContext == [toc |-> [head |-> <<>>, entries |-> <<>>], body |-> "body"]

InitPage ==
    /\ post_directory = Posts
    /\ pagename = <<>>
    /\ context = PageContext

\* No node: add_next_prev has not been called.
NoNode == [docname |-> "", time |-> BadTime, next |-> "", prev |-> "",
           next_text |-> "", prev_text |-> ""]

InitNav ==
    /\ nav = NoNode
    /\ legacy_nav = NoNode

InitCall ==
    /\ cvs_argument = NoArgument
    /\ cvs_value = <<>>
    /\ returned = <<>>
    /\ InitPage
    /\ InitNav

\* The state of a build before its first document is read.
Init == InitEnv /\ InitResolve /\ error = NoError /\ InitText /\ InitCall

(***************************************************************************)
(* BlogPostDirective.run in document `docname` with the options given.     *)
(* strptime raises ValueError on a time option that does not parse, before *)
(* the environment is touched.                                             *)
(***************************************************************************)
None == "None"

\* The BlogNode as it is before the environment is reached.
BlogNode(options) ==
    [time |-> options.time,
     category |-> options.category,
     tags |-> options.tags,
     year |-> YearOf(options.time),
     category_ref |-> None,
     docname |-> None,
     tags_ref |-> [i \in 1 .. Len(options.tags) |-> None]]

\* env.new_serialno('post') while document `docname` is read. The counter
\* is the host's: Sphinx keeps it in env.temp_data, the data of the
\* document being read, so it counts the calls made from that document.
new_serialno_post(posts, docname) ==
    Cardinality({i \in 1 .. Len(posts) : posts[i].docname = docname})

\* The entry appended to env.all_posts.
PostInfo(options, docname, targetid) ==
    [time |-> options.time,
     category |-> options.category,
     tags |-> options.tags,
     year |-> YearOf(options.time),
     docname |-> docname,
     targetid |-> targetid]

\* The nodes returned when the environment is there: the target and the
\* post node, which has its document and its target id.
WithTarget(options, docname, targetid) ==
    <<[ids |-> <<targetid>>],
      [BlogNode(options) EXCEPT !.docname = docname]
          @@ [targetid |-> targetid]>>

\* A post directive that stores the post before it parses the time.
BlogPostDirective_run_unparsed(options, docname) ==
    LET targetid == <<"post", new_serialno_post(all_posts, docname)>>
    IN  /\ Reading
        /\ all_posts' = Append(all_posts,
                               PostInfo(options, docname, targetid))
        /\ env_attrs' = env_attrs \cup {"all_posts"}
        /\ IF options.time = BadTime
           THEN /\ Raise("ValueError", "time data does not match format",
                         docname)
                /\ UNCHANGED returned
           ELSE /\ returned' = WithTarget(options, docname, targetid)
                /\ UNCHANGED error
        /\ UNCHANGED <<idVars, listingVars, resolveVars, textVars,
                       parseVars, pageVars, navVars>>

\* A post directive that puts the new post in front of the store.
BlogPostDirective_run_prepend(options, docname) ==
    LET targetid == <<"post", new_serialno_post(all_posts, docname)>>
    IN  /\ Reading
        /\ options.time # BadTime
        /\ all_posts' = <<PostInfo(options, docname, targetid)>>
                            \o all_posts
        /\ env_attrs' = env_attrs \cup {"all_posts"}
        /\ returned' = WithTarget(options, docname, targetid)
        /\ UNCHANGED <<idVars, listingVars, resolveVars, error, textVars,
                       parseVars, pageVars, navVars>>

BlogPostDirective_run(options, docname) ==
    /\ Reading
    /\ IF options.time = BadTime
       THEN /\ Raise("ValueError", "time data does not match format", docname)
            /\ UNCHANGED <<envVars, resolveVars, callVars>>
       ELSE LET targetid == <<"post",
                              new_serialno_post(all_posts, docname)>>
            IN  /\ all_posts' = Append(all_posts,
                       PostInfo(options, docname, targetid))
                /\ env_attrs' = env_attrs \cup {"all_posts"}
                /\ returned' = WithTarget(options, docname, targetid)
                /\ UNCHANGED <<idVars, listingVars, resolveVars, error,
                               textVars, parseVars, pageVars, navVars>>

\* A post directive outside a build whose AttributeError is not caught.
BlogPostDirective_run_uncaught(options) ==
    /\ Reading
    /\ IF options.time = BadTime
       THEN Raise("ValueError", "time data does not match format", "")
       ELSE Raise("AttributeError", "env", "")
    /\ UNCHANGED <<envVars, resolveVars, callVars>>

\* BlogPostDirective.run where document.settings has no env: reaching it
\* raises AttributeError inside the try, and the except branch returns the
\* node alone.
BlogPostDirective_run_without_env(options) ==
    /\ Reading
    /\ IF options.time = BadTime
       THEN /\ Raise("ValueError", "time data does not match format", "")
            /\ UNCHANGED <<envVars, resolveVars, callVars>>
       ELSE /\ returned' = <<BlogNode(options)>>
            /\ UNCHANGED <<envVars, resolveVars, error, textVars,
                           parseVars, pageVars, navVars>>

(***************************************************************************)
(* The listing directives. Each keeps the document of its first occurrence *)
(* on env and raises ValueError when the attribute is already there.       *)
(***************************************************************************)
\* A category directive without the check: every occurrence records itself.
BlogCategoryDirective_run_unchecked(docname) ==
    /\ Reading
    /\ category_docname' = docname
    /\ env_attrs' = env_attrs \cup {"category_docname"}
    /\ listing_nodes' = [listing_nodes EXCEPT !.category = Append(@, docname)]
    /\ UNCHANGED <<error, all_posts, idVars, tag_docname, archive_docname,
                   recent_docname, recent_nodes, resolveVars, callVars>>

BlogCategoryDirective_run(docname) ==
    /\ Reading
    /\ IF ~hasattr("category_docname")
       THEN /\ category_docname' = docname
            /\ env_attrs' = env_attrs \cup {"category_docname"}
            /\ listing_nodes' =
                   [listing_nodes EXCEPT !.category = Append(@, docname)]
            /\ UNCHANGED error
       ELSE /\ Raise("ValueError", "Only one category list is supported!",
                     docname)
            /\ UNCHANGED <<category_docname, env_attrs, listing_nodes>>
    /\ UNCHANGED <<all_posts, idVars, tag_docname, archive_docname,
                   recent_docname, recent_nodes, resolveVars, callVars>>

BlogTagDirective_run(docname) ==
    /\ Reading
    /\ IF ~hasattr("tag_docname")
       THEN /\ tag_docname' = docname
            /\ env_attrs' = env_attrs \cup {"tag_docname"}
            /\ listing_nodes' =
                   [listing_nodes EXCEPT !.tag = Append(@, docname)]
            /\ UNCHANGED error
       ELSE /\ Raise("ValueError", "Only one tag list is supported!", docname)
            /\ UNCHANGED <<tag_docname, env_attrs, listing_nodes>>
    /\ UNCHANGED <<all_posts, idVars, category_docname, archive_docname,
                   recent_docname, recent_nodes, resolveVars, callVars>>

BlogArchiveDirective_run(docname) ==
    /\ Reading
    /\ IF ~hasattr("archive_docname")
       THEN /\ archive_docname' = docname
            /\ env_attrs' = env_attrs \cup {"archive_docname"}
            /\ listing_nodes' =
                   [listing_nodes EXCEPT !.archive = Append(@, docname)]
            /\ UNCHANGED error
       ELSE /\ Raise("ValueError", "Only one archive list is supported!",
                     docname)
            /\ UNCHANGED <<archive_docname, env_attrs, listing_nodes>>
    /\ UNCHANGED <<all_posts, idVars, category_docname, tag_docname,
                   recent_docname, recent_nodes, resolveVars, callVars>>

\* The length option left out: self.options has no key 'length'.
NoLength == 0

\* A recent directive that puts its node on env before it looks for an
\* earlier one.
BlogRecentDirective_run_appending(docname, len_option) ==
    /\ Reading
    /\ len_option # NoLength
    /\ recent_nodes' = Append(recent_nodes,
           [length |-> len_option, docname |-> docname])
    /\ env_attrs' = env_attrs \cup {"recent_docname", "recent_nodes"}
    /\ IF ~hasattr("recent_docname")
       THEN recent_docname' = docname /\ UNCHANGED error
       ELSE /\ Raise("ValueError", "Recent posts can only be inserted once!",
                     docname)
            /\ UNCHANGED recent_docname
    /\ UNCHANGED <<all_posts, idVars, category_docname, tag_docname,
                   archive_docname, listing_nodes, resolveVars, callVars>>

\* BlogRecentDirective.run: node['length'] = self.options['length'] comes
\* first and raises KeyError when the option was left out.
BlogRecentDirective_run(docname, len_option) ==
    /\ Reading
    /\ IF len_option = NoLength
       THEN /\ Raise("KeyError", "length", docname)
            /\ UNCHANGED <<recent_docname, env_attrs, recent_nodes>>
       ELSE IF ~hasattr("recent_docname")
       THEN /\ recent_docname' = docname
            /\ env_attrs' = env_attrs \cup {"recent_docname", "recent_nodes"}
            /\ recent_nodes' = Append(recent_nodes,
                   [length |-> len_option, docname |-> docname])
            /\ UNCHANGED error
       ELSE /\ Raise("ValueError", "Recent posts can only be inserted once!",
                     docname)
            /\ UNCHANGED <<recent_docname, env_attrs, recent_nodes>>
    /\ UNCHANGED <<all_posts, idVars, category_docname, tag_docname,
                   archive_docname, listing_nodes, resolveVars, callVars>>

(***************************************************************************)
(* process_blog_posts(app, doctree, fromdocname).                          *)
(***************************************************************************)
\* The number of nodes of a listing directive in document d.
CountIn(docs, d) == Cardinality({i \in 1 .. Len(docs) : docs[i] = d})

\* The indices of the posts whose BlogNode is in document d, in order.
RECURSIVE PostsIn(_, _, _)
PostsIn(posts, d, n) ==
    IF n = 0 THEN <<>>
    ELSE IF posts[n].docname = d
         THEN Append(PostsIn(posts, d, n - 1), n)
         ELSE PostsIn(posts, d, n - 1)

\* relative uri to document `docname`, '#', an identifier
Ref(docname, anchor) == [docname |-> docname, anchor |-> anchor]

\* make_new_section and make_item_list for one key: the title is
\* '{} ({})'.format(key, len(item_dict[key])), the anchor env_id[key].
Section(key, item_dict, env_id) ==
    [key |-> key, count |-> Len(item_dict.items[key]),
     id |-> env_id[key], items |-> item_dict.items[key]]

\* An update_node_replace that ignores `reverse`.
update_node_replace_ascending(item_dict, env_id, rank, reverse) ==
    LET asc == sorted_keys(Keys(item_dict), rank)
    IN  [i \in 1 .. Len(asc) |-> Section(asc[i], item_dict, env_id)]

\* update_node_replace: what one node of the listing is replaced by.
update_node_replace(item_dict, env_id, rank, reverse) ==
    LET asc == sorted_keys(Keys(item_dict), rank)
        keyseq == IF reverse THEN Reverse(asc) ELSE asc
    IN  [i \in 1 .. Len(keyseq) |-> Section(keyseq[i], item_dict, env_id)]

\* The first exception of the lookups that build the references of one post
\* node: env.category_docname, env.category_id[cat], and for every tag
\* env.tag_docname, env.tag_id[tag]. "" when none is raised.
RefError(post, attrs, cat_ids, tag_ids) ==
    IF "category_docname" \notin attrs THEN "AttributeError"
    ELSE IF post.category \notin DOMAIN cat_ids THEN "KeyError"
    ELSE IF post.tags = <<>> THEN ""
    ELSE IF "tag_docname" \notin attrs THEN "AttributeError"
    ELSE IF \E t \in Range(post.tags) : t \notin DOMAIN tag_ids
         THEN "KeyError"
    ELSE ""

\* The first exception of update_node_replace on a document with `count`
\* nodes of the listing: make_new_section reads env_id[key] of every key.
SectionError(count, item_dict, env_id) ==
    IF count > 0 /\ \E k \in Keys(item_dict) : k \notin DOMAIN env_id
    THEN "KeyError" ELSE ""

FirstError(errs) ==
    IF \A i \in 1 .. Len(errs) : errs[i] = "" THEN ""
    ELSE errs[CHOOSE i \in 1 .. Len(errs) :
                 /\ errs[i] # ""
                 /\ \A j \in 1 .. i - 1 : errs[j] = ""]

Min(a, b) == IF a <= b THEN a ELSE b

\* An update_recent_nodes that lists the whole flat list.
RecentItems_whole(node, posts, flat, cat_doc, cat_ids, tag_doc, tag_ids, rdoc) ==
    [nmax |-> Len(flat),
     items |-> [i \in 1 .. Len(flat) |->
        LET post == posts[flat[i].post]
        IN  [post |-> flat[i].post,
             time |-> flat[i].time,
             category |-> post.category,
             category_ref |-> Ref(cat_doc, cat_ids[post.category]),
             tags_and_ref |-> [j \in 1 .. Len(post.tags) |->
                 [tag |-> post.tags[j],
                  ref |-> Ref(tag_doc, tag_ids[post.tags[j]])]],
             post_ref |-> Ref(post.docname, post.targetid)]]]

\* update_recent_nodes for one RecentNode: nmax and the items.
RecentItems(node, posts, flat, cat_doc, cat_ids, tag_doc, tag_ids, rdoc) ==
    LET nmax == Min(node.length, Len(flat))
    IN  [nmax |-> nmax,
         items |-> [i \in 1 .. nmax |->
            LET post == posts[flat[i].post]
            IN  [post |-> flat[i].post,
                 time |-> flat[i].time,
                 category |-> post.category,
                 category_ref |-> Ref(cat_doc, cat_ids[post.category]),
                 tags_and_ref |-> [j \in 1 .. Len(post.tags) |->
                     [tag |-> post.tags[j],
                      ref |-> Ref(tag_doc, tag_ids[post.tags[j]])]],
                 post_ref |-> Ref(post.docname, post.targetid)]]]

RecentError(node, posts, flat, attrs, cat_ids, tag_ids) ==
    LET nmax == Min(node.length, Len(flat))
    IN  FirstError([i \in 1 .. nmax |->
            RefError(posts[flat[i].post], attrs, cat_ids, tag_ids)])

\* The loop over the BlogNodes of the doctree, for the node of post i.
ResolvedPost(posts, i, flat, cat_doc, cat_ids, tag_doc, tag_ids) ==
    LET post == posts[i]
        node == [post |-> i,
                 docname |-> post.docname,
                 time |-> post.time,
                 category |-> post.category,
                 tags |-> post.tags,
                 category_ref |-> Ref(cat_doc, cat_ids[post.category]),
                 tags_ref |-> [j \in 1 .. Len(post.tags) |->
                                  Ref(tag_doc, tag_ids[post.tags[j]])],
                 next |-> "", prev |-> "",
                 next_text |-> "", prev_text |-> ""]
    IN  add_next_prev(node, flat)

\* The whole handler. The three build_*_info calls come first and give the
\* group keys their identifiers when env has none yet; the lookups of the
\* later steps raise on a missing attribute or key, which ends the build.
process_blog_posts(d) ==
    /\ Reading
    /\ IF ~hasattr("all_posts")
       THEN \* make_references reads env.all_posts
            /\ Raise("AttributeError", "all_posts", d)
            /\ UNCHANGED <<envVars, resolveVars, callVars>>
       ELSE LET cats == category_groups(all_posts)
                tgs == tag_groups(all_posts)
                arch == archive_groups(all_posts)
                flat == flat_list(all_posts)
                cat_new == ids_missing(env_attrs, "category_id")
                tag_new == ids_missing(env_attrs, "tag_id")
                year_new == ids_missing(env_attrs, "archive_id")
                cat_ids == IF cat_new
                           THEN new_ids("category",
                                    id_order(cats, StrRank(Keys(cats))),
                                    serialno.category)
                           ELSE category_id
                tag_ids == IF tag_new
                           THEN new_ids("tag",
                                    id_order(tgs, StrRank(Keys(tgs))),
                                    serialno.tag)
                           ELSE tag_id
                year_ids == IF year_new
                            THEN new_ids("year",
                                     id_order(arch, IntRank(Keys(arch))),
                                     serialno.year)
                            ELSE archive_id
                here == PostsIn(all_posts, d, Len(all_posts))
                recents == SelectSeq(recent_nodes, LAMBDA n : n.docname = d)
                ncat == CountIn(listing_nodes.category, d)
                ntag == CountIn(listing_nodes.tag, d)
                narch == CountIn(listing_nodes.archive, d)
                err == FirstError(<<
                    SectionError(ncat, cats, cat_ids),
                    SectionError(ntag, tgs, tag_ids),
                    SectionError(narch, arch, year_ids),
                    FirstError([i \in 1 .. Len(recents) |->
                        RecentError(recents[i], all_posts, flat, env_attrs,
                                    cat_ids, tag_ids)]),
                    FirstError([i \in 1 .. Len(here) |->
                        RefError(all_posts[here[i]], env_attrs,
                                 cat_ids, tag_ids)])>>)
            IN  /\ category_id' = cat_ids
                /\ tag_id' = tag_ids
                /\ archive_id' = year_ids
                /\ serialno' = [serialno EXCEPT
                       !.category = IF cat_new THEN @ + Len(cats.order) ELSE @,
                       !.tag = IF tag_new THEN @ + Len(tgs.order) ELSE @,
                       !.year = IF year_new THEN @ + Len(arch.order) ELSE @]
                /\ env_attrs' = env_attrs
                                  \cup {"category_id", "tag_id", "archive_id"}
                /\ UNCHANGED <<all_posts, listingVars, callVars>>
                /\ IF err = ""
                   THEN /\ fromdocname' = d
                        /\ categories' = cats
                        /\ tags' = tgs
                        /\ archive' = arch
                        /\ archive_flat' = flat
                        /\ doctree' =
                             [posts |-> [i \in 1 .. Len(here) |->
                                  ResolvedPost(all_posts, here[i], flat,
                                      category_docname, cat_ids,
                                      tag_docname, tag_ids)],
                              category_sections |->
                                  IF ncat = 0 THEN <<>>
                                  ELSE update_node_replace(cats, cat_ids,
                                           StrRank(Keys(cats)), FALSE),
                              tag_sections |->
                                  IF ntag = 0 THEN <<>>
                                  ELSE update_node_replace(tgs, tag_ids,
                                           StrRank(Keys(tgs)), FALSE),
                              archive_sections |->
                                  IF narch = 0 THEN <<>>
                                  ELSE update_node_replace(arch, year_ids,
                                           IntRank(Keys(arch)), TRUE),
                              recent |-> [i \in 1 .. Len(recents) |->
                                  RecentItems(recents[i], all_posts, flat,
                                      category_docname, cat_ids,
                                      tag_docname, tag_ids, recent_docname)]]
                        /\ UNCHANGED error
                   ELSE /\ Raise(err, "", d)
                        /\ UNCHANGED resolveVars

\* The builder writes the resolved doctree (the html_visit_* functions render
\* its nodes) and drops it; the next document follows.
write_doc ==
    /\ Running
    /\ fromdocname # ""
    /\ fromdocname' = ""
    /\ categories' = EmptyDict
    /\ tags' = EmptyDict
    /\ archive' = EmptyDict
    /\ archive_flat' = <<>>
    /\ doctree' = NoDoctree
    /\ UNCHANGED <<envVars, error, callVars>>

(***************************************************************************)
(* Spec: one build from its start, over two documents.                     *)
(***************************************************************************)
Docs == {"index", "blog"}

\* The documents that hold posts.
PostPages == {"blog"}

BuildOptions ==
    [time : {BadTime, 1, 2}, category : {"a"}, tags : {<<>>, <<"x">>}]

Next ==
    \/ \E d \in PostPages, o \in BuildOptions :
          /\ Len(all_posts) < MaxBuildPosts
          /\ BlogPostDirective_run(o, d)
    \/ \E d \in Docs : BlogCategoryDirective_run(d)
    \/ \E d \in Docs : BlogTagDirective_run(d)
    \/ \E d \in Docs : BlogArchiveDirective_run(d)
    \/ \E d \in Docs, n \in 0 .. MaxRecent : BlogRecentDirective_run(d, n)
    \/ \E d \in Docs : process_blog_posts(d)
    \/ write_doc

Spec == Init /\ [][Next]_vars

(***************************************************************************)
(* SpecPosts: a build whose listing pages have been read (each listing     *)
(* directive once, in a page of its own); every post is in a document of   *)
(* its own, and posts and process_blog_posts calls come in any order.      *)
(***************************************************************************)
PostDocs == <<"posts/1", "posts/2", "posts/3", "posts/4", "posts/5">>
ListingDocs == {"posts/categories", "posts/tags", "posts/archive", "index"}

\* The category and tags options of the posts: every category, and a tag
\* list of one tag, of two tags, and one naming a tag twice.
PostKinds ==
    {[category |-> "a", tags |-> <<"x">>],
     [category |-> "b", tags |-> <<"y", "x">>],
     [category |-> "c", tags |-> <<"x", "x">>]}

PostOptions ==
    {[time |-> t, category |-> k.category, tags |-> k.tags] :
        t \in Times, k \in PostKinds}

InitPosts ==
    /\ env_attrs = {"category_docname", "tag_docname", "archive_docname",
                    "recent_docname", "recent_nodes"}
    /\ all_posts = <<>>
    /\ serialno = [category |-> 0, tag |-> 0, year |-> 0]
    /\ category_id = <<>>
    /\ tag_id = <<>>
    /\ archive_id = <<>>
    /\ category_docname = "posts/categories"
    /\ tag_docname = "posts/tags"
    /\ archive_docname = "posts/archive"
    /\ recent_docname = "index"
    /\ recent_nodes = <<[length |-> MaxRecent, docname |-> "index"]>>
    /\ listing_nodes = [category |-> <<"posts/categories">>,
                        tag |-> <<"posts/tags">>,
                        archive |-> <<"posts/archive">>]
    /\ InitResolve
    /\ error = NoError
    /\ InitText
    /\ InitCall

NextPosts ==
    \/ \E o \in PostOptions :
          /\ Len(all_posts) < MaxPosts
          /\ BlogPostDirective_run(o, PostDocs[Len(all_posts) + 1])
    \/ \E d \in ListingDocs : process_blog_posts(d)
    \/ \E i \in 1 .. Len(all_posts) : process_blog_posts(PostDocs[i])
    \/ write_doc

SpecPosts == InitPosts /\ [][NextPosts]_vars

(***************************************************************************)
(* SpecDirective: post directives alone, in documents read by a build and  *)
(* in documents parsed without one (document.settings has no env).         *)
(***************************************************************************)
DirectiveOptions ==
    PostOptions
        \cup {[time |-> BadTime, category |-> "a", tags |-> <<"x">>]}

NextDirective ==
    \/ \E o \in DirectiveOptions, d \in PostPages :
          /\ Len(all_posts) < MaxBuildPosts
          /\ BlogPostDirective_run(o, d)
    \/ \E o \in DirectiveOptions : BlogPostDirective_run_without_env(o)

SpecDirective == Init /\ [][NextDirective]_vars

(***************************************************************************)
(* shorten_text. A text is a sequence of characters.                       *)
(***************************************************************************)
\* shorten_text(text, length=50, suffix='...')
DefaultLength == 50
\* shorten_text(..., length=100) of the summary card and the recent item
SummaryLength == 100
\* s.rfind(ch), 1-based: the last index of ch in s, 0 when there is none
RECURSIVE rfind(_, _)
rfind(s, ch) ==
    IF s = <<>> THEN 0
    ELSE IF s[Len(s)] = ch THEN Len(s)
    ELSE rfind(SubSeq(s, 1, Len(s) - 1), ch)

\* s.rsplit(' ', 1)[0]
rsplit_head(s) ==
    LET p == rfind(s, " ")
    IN  IF p = 0 THEN s ELSE SubSeq(s, 1, p - 1)

\* A length test that is off by one.
shorten_text_strict(t, n, sfx) ==
    IF Len(t) < n THEN t
    ELSE rsplit_head(SubSeq(t, 1, n)) \o sfx

\* A shorten_text that adds the default suffix whatever suffix is passed.
shorten_text_dotted(t, n, sfx) ==
    IF Len(t) <= n THEN t
    ELSE rsplit_head(SubSeq(t, 1, n)) \o Suffix

\* The text split before it is cut to the length.
shorten_text_uncut(t, n, sfx) ==
    IF Len(t) <= n THEN t
    ELSE rsplit_head(t) \o sfx

shorten_text(t, n, sfx) ==
    IF Len(t) <= n THEN t
    ELSE rsplit_head(SubSeq(t, 1, n)) \o sfx

\* argument.strip(), for texts whose only whitespace is the space
RECURSIVE lstrip(_)
lstrip(s) ==
    IF s # <<>> /\ Head(s) = " " THEN lstrip(Tail(s)) ELSE s

RECURSIVE rstrip(_)
rstrip(s) ==
    IF s # <<>> /\ s[Len(s)] = " "
    THEN rstrip(SubSeq(s, 1, Len(s) - 1)) ELSE s

stripped(argument) == rstrip(lstrip(argument))

\* html_visit_blogoutput: the summary of the card. node['summary'] went
\* through `stripped` when the directive was parsed.
html_visit_blogoutput ==
    /\ caller = ""
    /\ text = stripped(text)
    /\ caller' = "html_visit_blogoutput"
    /\ length' = SummaryLength
    /\ suffix' = Suffix
    /\ shortened' = shorten_text(text, SummaryLength, Suffix)
    /\ UNCHANGED <<text, envVars, resolveVars, error, parseVars, returned,
                   pageVars, navVars>>

\* update_recent_nodes: the 'summary' of a recent item.
recent_item_summary ==
    /\ caller = ""
    /\ text = stripped(text)
    /\ caller' = "update_recent_nodes"
    /\ length' = SummaryLength
    /\ suffix' = Suffix
    /\ shortened' = shorten_text(text, SummaryLength, Suffix)
    /\ UNCHANGED <<text, envVars, resolveVars, error, parseVars, returned,
                   pageVars, navVars>>

\* A call of shorten_text with a length of the caller's choice.
shorten_text_call(n) ==
    /\ caller = ""
    /\ caller' = "shorten_text"
    /\ length' = n
    /\ suffix' = Suffix
    /\ shortened' = shorten_text(text, n, Suffix)
    /\ UNCHANGED <<text, envVars, resolveVars, error, parseVars, returned,
                   pageVars, navVars>>

\* A call of shorten_text with a length and a suffix of the caller's choice.
shorten_text_suffix_call(n, sfx) ==
    /\ caller = ""
    /\ caller' = "shorten_text"
    /\ length' = n
    /\ suffix' = sfx
    /\ shortened' = shorten_text(text, n, sfx)
    /\ UNCHANGED <<text, envVars, resolveVars, error, parseVars, returned,
                   pageVars, navVars>>

(***************************************************************************)
(* SpecShorten: one call of shorten_text on a text drawn from Texts: a run *)
(* of letters with up to MaxEdge free characters (letter or space) at each *)
(* end, of a total length around 0, DefaultLength and SummaryLength.       *)
(***************************************************************************)
Chars == {"a", " "}

Edges == UNION {[1 .. n -> Chars] : n \in 0 .. MaxEdge}

Pad(k) == [i \in 1 .. k |-> "a"]

Pads ==
    {0} \cup UNION {(n - 2 * MaxEdge) .. (n + 1) :
                       n \in {DefaultLength, SummaryLength}}

Texts == {pre \o Pad(k) \o post : pre \in Edges, post \in Edges, k \in Pads}

Lengths == (0 .. MaxEdge + 1) \cup {DefaultLength}

InitShorten ==
    /\ InitEnv
    /\ InitResolve
    /\ error = NoError
    /\ text \in Texts
    /\ caller = ""
    /\ length = 0
    /\ suffix = Suffix
    /\ shortened = <<>>
    /\ InitCall

NextShorten ==
    \/ \E n \in Lengths : shorten_text_call(n)
    \/ html_visit_blogoutput
    \/ recent_item_summary

SpecShorten == InitShorten /\ [][NextShorten]_vars

(***************************************************************************)
(* SpecSuffix: one call of shorten_text on a text of Texts with a length   *)
(* of Lengths and a suffix of Suffixes.                                    *)
(***************************************************************************)
Suffixes == {<<>>, <<".">>, Suffix, <<" ", "x">>}

NextSuffix ==
    \E n \in Lengths, sfx \in Suffixes : shorten_text_suffix_call(n, sfx)

SpecSuffix == InitShorten /\ [][NextSuffix]_vars

(***************************************************************************)
(* cvs_to_list. The argument is a sequence of characters, or NoArgument.   *)
(***************************************************************************)
\* str.lower() of one character
LowerChar(c) ==
    CASE c = "A" -> "a"
      [] c = "B" -> "b"
      [] c = "C" -> "c"
      [] OTHER -> c

\* s.lower()
lower(s) == [i \in 1 .. Len(s) |-> LowerChar(s[i])]

\* s.find(ch), 1-based: the first index of ch in s, 0 when there is none
RECURSIVE find(_, _)
find(s, ch) ==
    IF s = <<>> THEN 0
    ELSE IF Head(s) = ch THEN 1
    ELSE LET p == find(Tail(s), ch) IN IF p = 0 THEN 0 ELSE p + 1

\* s.split(',')
RECURSIVE split(_)
split(s) ==
    LET p == find(s, ",")
    IN  IF p = 0 THEN <<s>>
        ELSE <<SubSeq(s, 1, p - 1)>> \o split(SubSeq(s, p + 1, Len(s)))

\* The pieces with the later occurrences of a value removed.
RECURSIVE unique(_)
unique(pieces) ==
    IF pieces = <<>> THEN <<>>
    ELSE LET front == unique(SubSeq(pieces, 1, Len(pieces) - 1))
             last == pieces[Len(pieces)]
         IN  IF last \in Range(front) THEN front ELSE Append(front, last)

\* A cvs_to_list that returns every value once.
cvs_to_list_unique(argument) ==
    IF argument = NoArgument THEN <<>>
    ELSE unique([i \in 1 .. Len(split(argument)) |->
                    lower(stripped(split(argument)[i]))])

cvs_to_list(argument) ==
    IF argument = NoArgument THEN <<>>
    ELSE [i \in 1 .. Len(split(argument)) |->
             lower(stripped(split(argument)[i]))]

\* One call of cvs_to_list.
cvs_to_list_call ==
    /\ caller = ""
    /\ caller' = "cvs_to_list"
    /\ cvs_value' = cvs_to_list(cvs_argument)
    /\ UNCHANGED <<cvs_argument, text, length, suffix, shortened, returned,
                   envVars,
                   resolveVars, error, pageVars, navVars>>

(***************************************************************************)
(* SpecCsv: one call of cvs_to_list on None, on every text of up to MaxArg *)
(* characters over CsvChars, or on one of the tag options of CsvExamples.  *)
(***************************************************************************)
\* the longest argument of cvs_to_list that is enumerated
MaxArg == 3

CsvChars == {" ", ",", "A", "b"}

CsvExamples ==
    {<<" ", "A", ",", " ", "b", " ", ",", "C">>,
     <<"b", ",", " ", "B", ",", "b", " ">>}

Arguments ==
    {NoArgument} \cup CsvExamples
        \cup UNION {[1 .. n -> CsvChars] : n \in 0 .. MaxArg}

InitCsv ==
    /\ InitEnv
    /\ InitResolve
    /\ error = NoError
    /\ InitText
    /\ cvs_argument \in Arguments
    /\ cvs_value = <<>>
    /\ returned = <<>>
    /\ InitPage
    /\ InitNav

NextCsv == cvs_to_list_call

SpecCsv == InitCsv /\ [][NextCsv]_vars

(***************************************************************************)
(* modify_toc, the handler of html-page-context. Page names and the        *)
(* post_directory are sequences of characters.                             *)
(***************************************************************************)
\* for key in ('tags', 'categories', 'archive')
TocKeys ==
    <<<<"t", "a", "g", "s">>,
      <<"c", "a", "t", "e", "g", "o", "r", "i", "e", "s">>,
      <<"a", "r", "c", "h", "i", "v", "e">>>>

\* os.path.join(a, b) of posixpath
join(a, b) ==
    IF b # <<>> /\ Head(b) = "/" THEN b
    ELSE IF a = <<>> \/ a[Len(a)] = "/" THEN a \o b
    ELSE a \o <<"/">> \o b

\* A test for sub at the start of s.
startswith(sub, s) ==
    Len(sub) <= Len(s) /\ SubSeq(s, 1, Len(sub)) = sub

\* sub in s, of two strings
contains(sub, s) ==
    \E i \in 0 .. Len(s) - Len(sub) : SubSeq(s, i + 1, i + Len(sub)) = sub

\* key.title() of a lower-case word
title(key) ==
    LET c == Head(key)
        up == CASE c = "t" -> "T" [] c = "c" -> "C" [] c = "a" -> "A"
                [] OTHER -> c
    IN  <<up>> \o Tail(key)

\* doctree.traverse(nodes.section): the sections of the page that carry
\* 'blog', which are those of its listing.
blog_sections(tree) ==
    tree.category_sections \o tree.tag_sections \o tree.archive_sections

\* make_toc: the head and one entry per section, its first id as the link
\* and node['blog'], the title 'key (n)', as the text.
make_toc(tree, head) ==
    [head |-> head,
     entries |-> [i \in 1 .. Len(blog_sections(tree)) |->
                     [href |-> blog_sections(tree)[i].id,
                      key |-> blog_sections(tree)[i].key,
                      count |-> blog_sections(tree)[i].count]]]

\* The loop over the keys, from key i on.
RECURSIVE modify_toc_from(_, _, _, _, _)
modify_toc_from(ctx, postdir, name, tree, i) ==
    IF i > Len(TocKeys) THEN ctx
    ELSE LET dirname == join(postdir, TocKeys[i])
             after == IF contains(dirname, name)
                      THEN [ctx EXCEPT !.toc = make_toc(tree, title(TocKeys[i]))]
                      ELSE ctx
         IN  modify_toc_from(after, postdir, name, tree, i + 1)

\* The handler, for the page `name` with the context the builder made.
modify_toc(name) ==
    /\ Running
    /\ pagename = <<>>
    /\ pagename' = name
    /\ context' = modify_toc_from(PageContext, post_directory, name,
                                  doctree, 1)
    /\ UNCHANGED <<envVars, resolveVars, error, textVars, parseVars,
                   returned, post_directory, navVars>>

(***************************************************************************)
(* SpecToc: one html-page-context event, for a page of PageNames with one  *)
(* of the doctrees of TocDoctrees and a post_directory of PostDirectories. *)
(***************************************************************************)
Blog == <<"b", "l", "o", "g">>

PostDirectories == {Posts, Blog}

Index == <<"i", "n", "d", "e", "x">>

PageNames ==
    {pre \o dir \o sep \o key \o post :
        pre \in {<<>>, <<"m", "y">>},
        dir \in PostDirectories,
        sep \in {<<"/">>, <<"-">>},
        key \in Range(TocKeys) \cup {Index},
        post \in {<<>>, <<"/", "x">>}}
      \cup {Index,
            Posts \o <<"/">> \o TocKeys[3] \o <<"/">>
                \o Posts \o <<"/">> \o TocKeys[1]}

TocCategories ==
    [order |-> <<"b", "a">>,
     items |-> ("a" :> <<[time |-> 1, post |-> 1]>>)
                 @@ ("b" :> <<[time |-> 2, post |-> 2],
                              [time |-> 1, post |-> 3]>>)]

TocArchive ==
    [order |-> <<FirstYear>>,
     items |-> (FirstYear :> <<[time |-> 1, post |-> 1]>>)]

TocDoctrees ==
    {NoDoctree,
     [NoDoctree EXCEPT !.category_sections =
         update_node_replace(TocCategories,
             new_ids("category", id_order(TocCategories, StrRank({"a", "b"})),
                     0),
             StrRank({"a", "b"}), FALSE)],
     [NoDoctree EXCEPT !.archive_sections =
         update_node_replace(TocArchive,
             new_ids("year", id_order(TocArchive, IntRank({FirstYear})), 0),
             IntRank({FirstYear}), TRUE)]}

InitToc ==
    /\ InitEnv
    /\ fromdocname = ""
    /\ categories = EmptyDict
    /\ tags = EmptyDict
    /\ archive = EmptyDict
    /\ archive_flat = <<>>
    /\ doctree \in TocDoctrees
    /\ error = NoError
    /\ InitText
    /\ cvs_argument = NoArgument
    /\ cvs_value = <<>>
    /\ returned = <<>>
    /\ post_directory \in PostDirectories
    /\ pagename = <<>>
    /\ context = PageContext
    /\ InitNav

NextToc == \E name \in PageNames : modify_toc(name)

SpecToc == InitToc /\ [][NextToc]_vars

(***************************************************************************)
(* add_next_prev of the legacy module blogpost.py, and one call of both    *)
(* functions on the same node and the same flat list.                      *)
(***************************************************************************)
legacy_Link(node, flat, i) ==
    LET idx_prev == IF i + 1 > Len(flat) THEN 1 ELSE i + 1
        idx_next == IF i - 1 < 1 THEN Len(flat) ELSE i - 1
    IN  [node EXCEPT
           !.prev_text = IF i + 1 > Len(flat) THEN "Newest &olarr;"
                         ELSE "Previous &rarr;",
           !.next_text = IF i - 1 < 1 THEN "&orarr; Oldest"
                         ELSE "&larr; Next",
           !.next = flat[idx_next].docname,
           !.prev = flat[idx_prev].docname]

RECURSIVE legacy_add_next_prev_from(_, _, _)
legacy_add_next_prev_from(node, flat, i) ==
    IF i > Len(flat) THEN node
    ELSE legacy_add_next_prev_from(
             IF node.time = flat[i].time THEN legacy_Link(node, flat, i)
             ELSE node,
             flat, i + 1)

\* A legacy add_next_prev that stops at the first entry with the node's
\* time.
legacy_add_next_prev_first(node, flat) ==
    LET found == {i \in 1 .. Len(flat) : flat[i].time = node.time}
    IN  IF found = {} THEN node
        ELSE legacy_Link(node, flat,
                         CHOOSE i \in found : \A j \in found : i <= j)

legacy_add_next_prev(node, flat) == legacy_add_next_prev_from(node, flat, 1)

\* A post node of document `docname` with the time t, as it is before
\* add_next_prev: the four navigation fields are not set.
NewNode(docname, t) ==
    [docname |-> docname, time |-> t, next |-> "", prev |-> "",
     next_text |-> "", prev_text |-> ""]

\* One call of add_next_prev of either module, with the flat list of the
\* store.
add_next_prev_call(docname, t) ==
    /\ Running
    /\ nav = NoNode
    /\ nav' = add_next_prev(NewNode(docname, t), flat_list(all_posts))
    /\ legacy_nav' = legacy_add_next_prev(NewNode(docname, t),
                                          flat_list(all_posts))
    /\ UNCHANGED <<envVars, resolveVars, error, textVars, parseVars,
                   returned, pageVars>>

(***************************************************************************)
(* SpecNav: a store of one to MaxNavPosts posts, each in a document of its *)
(* own, has been read; documents are resolved and add_next_prev is called  *)
(* once on a node of any time.                                             *)
(***************************************************************************)
MaxNavPosts == 3

NavStores ==
    {[i \in 1 .. n |->
         PostInfo([time |-> times[i], category |-> "a", tags |-> <<>>],
                  PostDocs[i], <<"post", 0>>)] :
        n \in 1 .. MaxNavPosts, times \in [1 .. MaxNavPosts -> Times]}

InitNavigation ==
    /\ env_attrs = {"all_posts", "category_docname", "tag_docname"}
    /\ all_posts \in NavStores
    /\ serialno = [category |-> 0, tag |-> 0, year |-> 0]
    /\ category_id = <<>>
    /\ tag_id = <<>>
    /\ archive_id = <<>>
    /\ category_docname = "posts/categories"
    /\ tag_docname = "posts/tags"
    /\ archive_docname = ""
    /\ recent_docname = ""
    /\ recent_nodes = <<>>
    /\ listing_nodes = [category |-> <<"posts/categories">>,
                        tag |-> <<"posts/tags">>,
                        archive |-> <<>>]
    /\ InitResolve
    /\ error = NoError
    /\ InitText
    /\ InitCall

NextNav ==
    \/ \E i \in 1 .. Len(all_posts) : process_blog_posts(PostDocs[i])
    \/ write_doc
    \/ \E i \in 1 .. Len(all_posts), t \in Times :
          add_next_prev_call(PostDocs[i], t)

SpecNav == InitNavigation /\ [][NextNav]_vars

(***************************************************************************)
(* The claims.                                                             *)
(***************************************************************************)
\* A call of process_blog_posts has returned and its locals are in view.
Aggregated == fromdocname # ""

\* How often post i occurs in a list of items.
CountPost(items, i) ==
    Cardinality({j \in 1 .. Len(items) : items[j].post = i})

\* How often post i occurs under key k of a grouping (0 when k is no key).
CountUnder(d, k, i) ==
    IF k \in Keys(d) THEN CountPost(d.items[k], i) ELSE 0

\* Newest first, and posts of equal time in the order of the Post Store.
NewestFirstStable(items) ==
    \A i, j \in 1 .. Len(items) :
        i < j => \/ items[i].time > items[j].time
                 \/ /\ items[i].time = items[j].time
                    /\ items[i].post <= items[j].post

\* The list holds two different posts of one time, and a post that the sort
\* moved in front of one stored before it.
TiedAndReordered(items) ==
    /\ \E i, j \in 1 .. Len(items) :
          items[i].time = items[j].time /\ items[i].post # items[j].post
    /\ \E i, j \in 1 .. Len(items) :
          i < j /\ items[i].post > items[j].post

\* C1: after an aggregation every post of the store is exactly once in the
\* list of its category, exactly once in the list of its year, exactly once
\* under each distinct tag it carries and exactly once in the flat list, and
\* under no other key.
C1_EveryPostOncePerKey ==
    Aggregated =>
        \A i \in 1 .. Len(all_posts) :
            /\ \A c \in Categories :
                  CountUnder(categories, c, i) =
                      IF c = all_posts[i].category THEN 1 ELSE 0
            /\ \A y \in {YearOf(t) : t \in Times} :
                  CountUnder(archive, y, i) =
                      IF y = all_posts[i].year THEN 1 ELSE 0
            /\ \A t \in Tags :
                  CountUnder(tags, t, i) =
                      IF t \in Range(all_posts[i].tags) THEN 1 ELSE 0
            /\ CountPost(archive_flat, i) = 1

\* C2: in every grouping an aggregation returns (by category, by tag, by
\* year) the list of every key is ordered by time descending, and posts of
\* equal time keep the order they have in the Post Store.
C2_GroupsNewestFirstStable ==
    Aggregated =>
        /\ \A k \in Keys(categories) : NewestFirstStable(categories.items[k])
        /\ \A k \in Keys(tags) : NewestFirstStable(tags.items[k])
        /\ \A k \in Keys(archive) : NewestFirstStable(archive.items[k])

C2_Witness ==
    /\ Aggregated
    /\ \E k \in Keys(categories) : TiedAndReordered(categories.items[k])
    /\ \E k \in Keys(tags) : TiedAndReordered(tags.items[k])
    /\ \E k \in Keys(archive) : TiedAndReordered(archive.items[k])

\* C3: the flat list an aggregation returns is a permutation of the Post
\* Store (same length, every post once, each entry with the time and the
\* document of its post), ordered by time descending with ties in the order
\* of the store.
C3_FlatListIsSortedPermutation ==
    Aggregated =>
        /\ Len(archive_flat) = Len(all_posts)
        /\ \A i \in 1 .. Len(all_posts) : CountPost(archive_flat, i) = 1
        /\ \A j \in 1 .. Len(archive_flat) :
              /\ archive_flat[j].post \in 1 .. Len(all_posts)
              /\ archive_flat[j].time = all_posts[archive_flat[j].post].time
              /\ archive_flat[j].docname =
                     all_posts[archive_flat[j].post].docname
        /\ NewestFirstStable(archive_flat)

C3_Witness ==
    /\ Aggregated
    /\ Len(archive_flat) = MaxPosts
    /\ TiedAndReordered(archive_flat)

\* The place of post p in the flat list.
PositionOf(flat, p) == CHOOSE i \in 1 .. Len(flat) : flat[i].post = p

\* C4: for every post node, Previous is the post after it in the flat list
\* and Next the post before it; at the oldest end Previous wraps to the
\* first entry with the 'Newest' label, at the newest end Next wraps to the
\* last entry with the 'Oldest' label, elsewhere the plain labels are used.
C4_LinksFollowThePosition ==
    Aggregated =>
        \A n \in 1 .. Len(doctree.posts) :
            LET node == doctree.posts[n]
                last == Len(archive_flat)
                i == PositionOf(archive_flat, node.post)
            IN  /\ node.prev =
                       archive_flat[IF i = last THEN 1 ELSE i + 1].docname
                /\ node.prev_text = IF i = last THEN "&olarr; Newest"
                                    ELSE "&larr; Previous"
                /\ node.next =
                       archive_flat[IF i = 1 THEN last ELSE i - 1].docname
                /\ node.next_text = IF i = 1 THEN "Oldest &orarr;"
                                    ELSE "Next &rarr;"

\* What a second occurrence of a listing directive in document d does: it
\* raises ValueError with the message of its kind and leaves env as it was.
SecondFails(msg, d) ==
    /\ error' = [type |-> "ValueError", msg |-> msg, docname |-> d]
    /\ UNCHANGED envVars

\* At most one node of each listing kind exists, the document recorded on
\* env is the document of that node, and a listing error is raised only
\* when the kind is recorded already.
OneListingPerKind ==
    /\ \A k \in {"category", "tag", "archive"} :
          /\ Len(listing_nodes[k]) <= 1
          /\ Len(listing_nodes[k]) = 1 <=> hasattr(k \o "_docname")
    /\ hasattr("category_docname") =>
           category_docname = listing_nodes.category[1]
    /\ hasattr("tag_docname") => tag_docname = listing_nodes.tag[1]
    /\ hasattr("archive_docname") =>
           archive_docname = listing_nodes.archive[1]
    /\ Len(recent_nodes) <= 1
    /\ Len(recent_nodes) = 1 <=> hasattr("recent_docname")
    /\ hasattr("recent_docname") => recent_docname = recent_nodes[1].docname

\* A step of a listing directive: the first occurrence of its kind records
\* its document and raises nothing, a later one fails; and nothing happens
\* once an error is raised.
ListingStep ==
    /\ error # NoError => UNCHANGED vars
    /\ \A d \in Docs :
          /\ BlogCategoryDirective_run(d) =>
                IF hasattr("category_docname")
                THEN SecondFails("Only one category list is supported!", d)
                ELSE category_docname' = d /\ error' = NoError
          /\ BlogTagDirective_run(d) =>
                IF hasattr("tag_docname")
                THEN SecondFails("Only one tag list is supported!", d)
                ELSE tag_docname' = d /\ error' = NoError
          /\ BlogArchiveDirective_run(d) =>
                IF hasattr("archive_docname")
                THEN SecondFails("Only one archive list is supported!", d)
                ELSE archive_docname' = d /\ error' = NoError
          /\ \A n \in 1 .. MaxRecent :
                BlogRecentDirective_run(d, n) =>
                    IF hasattr("recent_docname")
                    THEN SecondFails(
                             "Recent posts can only be inserted once!", d)
                    ELSE recent_docname' = d /\ error' = NoError

\* C5: one categories, one tags, one archive and one recent-posts directive
\* may run per build: the first occurrence of a kind records its document
\* name, a second occurrence of the kind, in the same or another document,
\* raises the error of its kind, and the build ends there.
C5_OneListingDirectivePerKind ==
    []OneListingPerKind /\ [][ListingStep]_vars

\* A second categories directive, in another document than the first, has
\* raised its error.
C5_Witness ==
    /\ error.type = "ValueError"
    /\ error.msg = "Only one category list is supported!"
    /\ hasattr("category_docname")
    /\ error.docname # category_docname

\* The serial number of an identifier.
SerialOf(id) == id[2]

\* C6: identifiers are handed out in ascending key order, whatever the order
\* in which the keys were first seen in the store: of two keys of one kind
\* the smaller one has the smaller counter value.
C6_IdentifiersFollowKeyOrder ==
    /\ \A k1, k2 \in DOMAIN category_id :
          CodePoint(k1) < CodePoint(k2) =>
              SerialOf(category_id[k1]) < SerialOf(category_id[k2])
    /\ \A k1, k2 \in DOMAIN tag_id :
          CodePoint(k1) < CodePoint(k2) =>
              SerialOf(tag_id[k1]) < SerialOf(tag_id[k2])
    /\ \A k1, k2 \in DOMAIN archive_id :
          k1 < k2 => SerialOf(archive_id[k1]) < SerialOf(archive_id[k2])

\* The categories were first seen in the order b, a, c, the tags in the
\* order y, x and the years newest first, and all have their identifiers.
C6_Witness ==
    /\ Len(all_posts) = 3
    /\ all_posts[1].category = "b"
    /\ all_posts[2].category = "a"
    /\ all_posts[3].category = "c"
    /\ all_posts[1].tags = <<"y", "x">>
    /\ all_posts[1].year > all_posts[2].year
    /\ category_id = [k \in {"a", "b", "c"} |->
                         <<"category", CodePoint(k) - CodePoint("a")>>]
    /\ DOMAIN tag_id = {"x", "y"}
    /\ Cardinality(DOMAIN archive_id) = 2

\* C7: after every aggregation each key of the current groupings has an
\* identifier (identifiers that exist are reused, keys seen for the first
\* time get theirs).
C7_EveryKeyHasAnIdentifier ==
    Aggregated =>
        /\ Keys(categories) \subseteq DOMAIN category_id
        /\ Keys(tags) \subseteq DOMAIN tag_id
        /\ Keys(archive) \subseteq DOMAIN archive_id

\* The identifiers of m are those of the same keys in n.
Kept(m, n) == \A k \in DOMAIN m : k \in DOMAIN n /\ n[k] = m[k]

\* C8: a key that has an identifier keeps it in every later step of the
\* build, whatever post directives and process_blog_posts calls follow.
C8_IdentifiersNeverChange ==
    [][/\ Kept(category_id, category_id')
       /\ Kept(tag_id, tag_id')
       /\ Kept(archive_id, archive_id')]_vars

\* Identifiers were given, a post with a new category, tag and year came
\* after that, and a later process_blog_posts call has returned.
C8_Witness ==
    /\ Aggregated
    /\ category_id # <<>> /\ tag_id # <<>> /\ archive_id # <<>>
    /\ Keys(categories) \ DOMAIN category_id # {}
    /\ Keys(tags) \ DOMAIN tag_id # {}
    /\ Keys(archive) \ DOMAIN archive_id # {}

\* C9: shorten_text returns a text of at most `length` characters unchanged;
\* of a longer text it returns the first `length` characters, cut before
\* their last space when they hold one, followed by the suffix.
C9_ShortenText ==
    caller # "" =>
        LET head == SubSeq(text, 1, length)
            spaces == {i \in 1 .. Len(head) : head[i] = " "}
        IN  IF Len(text) <= length THEN shortened = text
            ELSE IF spaces = {} THEN shortened = head \o Suffix
            ELSE \E p \in spaces :
                    /\ \A q \in spaces : q <= p
                    /\ shortened = SubSeq(text, 1, p - 1) \o Suffix

\* A text of 51 characters, shortened with the default length of 50, was cut
\* at a space and is, with its suffix, longer than 50 characters.
C9_Witness ==
    /\ caller = "shorten_text"
    /\ length = DefaultLength
    /\ Len(text) = DefaultLength + 1
    /\ \E i \in 1 .. DefaultLength : text[i] = " "
    /\ Len(shortened) > DefaultLength

FromSummary == caller \in {"html_visit_blogoutput", "update_recent_nodes"}

\* C10 as stated: the shortened summary of a summary card and of a recent
\* item is at most 100 characters long.
C10_SummaryAtMost100 ==
    FromSummary => Len(shortened) <= SummaryLength

\* C10 as amended: the shortened summary of a summary card and of a recent
\* item is at most 103 characters long, the 100 of the cut and the 3 of the
\* suffix; a summary of at most 100 characters is shown as it is.
C10_SummaryAtMost100PlusSuffix ==
    FromSummary =>
        /\ Len(shortened) <= SummaryLength + Len(Suffix)
        /\ Len(text) <= SummaryLength => shortened = text

C10_Witness ==
    /\ FromSummary
    /\ Len(text) > SummaryLength
    /\ Len(shortened) = SummaryLength + Len(Suffix)

\* The k-th piece of a text, k from 1: what is between the commas k - 1
\* and k, the ends of the text counting as commas.
PieceOf(s, k) ==
    LET cuts == {0, Len(s) + 1} \cup {i \in 1 .. Len(s) : s[i] = ","}
        cut(n) == CHOOSE p \in cuts : Cardinality({q \in cuts : q < p}) = n
    IN  SubSeq(s, cut(k - 1) + 1, cut(k) - 1)

\* v is the piece without the spaces at its ends, in lower case.
TrimmedLower(piece, v) ==
    \E i \in 1 .. Len(piece) + 1, j \in 0 .. Len(piece) :
        /\ \A n \in 1 .. i - 1 : piece[n] = " "
        /\ \A n \in j + 1 .. Len(piece) : piece[n] = " "
        /\ i <= j => piece[i] # " " /\ piece[j] # " "
        /\ i > j => i = j + 1
        /\ Len(v) = j - i + 1
        /\ \A n \in 1 .. Len(v) : v[n] = LowerChar(piece[i + n - 1])

\* C11: cvs_to_list returns the empty list for None; for a text it returns
\* one value per piece between commas, in the order of the pieces, each the
\* piece trimmed and in lower case, equal values kept.
C11_CvsToList ==
    caller = "cvs_to_list" =>
        IF cvs_argument = NoArgument THEN cvs_value = <<>>
        ELSE /\ Len(cvs_value) =
                    1 + Cardinality({i \in 1 .. Len(cvs_argument) :
                                        cvs_argument[i] = ","})
             /\ \A k \in 1 .. Len(cvs_value) :
                    TrimmedLower(PieceOf(cvs_argument, k), cvs_value[k])

\* " A, b ,C" has given ["a", "b", "c"].
C11_Witness ==
    /\ caller = "cvs_to_list"
    /\ cvs_argument = <<" ", "A", ",", " ", "b", " ", ",", "C">>
    /\ cvs_value = << <<"a">>, <<"b">>, <<"c">> >>

\* C12: a post directive whose time option does not parse (a missing one
\* included) raises ValueError, appends nothing to the store and changes
\* nothing else of env; the build ends there.
C12_BadTimeFailsAndStoresNothing ==
    [][/\ error # NoError => UNCHANGED vars
       /\ \A d \in Docs, o \in BuildOptions :
             (BlogPostDirective_run(o, d) /\ o.time = BadTime) =>
                 /\ error'.type = "ValueError"
                 /\ error'.docname = d
                 /\ all_posts' = all_posts
                 /\ UNCHANGED envVars]_vars

\* A post is in the store and a second post directive, whose time did not
\* parse, has failed.
C12_Witness ==
    /\ error.type = "ValueError"
    /\ error.msg = "time data does not match format"
    /\ Len(all_posts) = 1

\* C13: a post directive that runs without a build environment and whose
\* time parses raises nothing and returns the post node alone, with no
\* document name, no category reference and no target id; the store and
\* the rest of env are as before.
C13_WithoutEnvReturnsBareNode ==
    [][\A o \in DirectiveOptions :
          (BlogPostDirective_run_without_env(o) /\ o.time # BadTime) =>
              /\ error' = NoError
              /\ Len(returned') = 1
              /\ returned'[1].docname = None
              /\ returned'[1].category_ref = None
              /\ "targetid" \notin DOMAIN returned'[1]
              /\ returned'[1].category = o.category
              /\ returned'[1].tags = o.tags
              /\ UNCHANGED envVars]_vars

\* A post is in the store, and a later directive without environment has
\* returned its node alone.
C13_Witness ==
    /\ Len(all_posts) = 1
    /\ Len(returned) = 1
    /\ returned[1].docname = None
    /\ error = NoError

\* C14: process_blog_posts on a build whose store is empty (no post
\* directive has run) raises no error and leaves empty category, tag and
\* year groupings and an empty flattened list.
C14_EmptyStoreAggregatesToNothing ==
    [][\A d \in Docs :
          (process_blog_posts(d) /\ all_posts = <<>>) =>
              /\ error' = NoError
              /\ categories' = EmptyDict
              /\ tags' = EmptyDict
              /\ archive' = EmptyDict
              /\ archive_flat' = <<>>]_vars

\* The places of the flat list whose time is t.
Matches(flat, t) == {i \in 1 .. Len(flat) : flat[i].time = t}

\* The links of the node are those of place i of the flat list.
LinkedFrom(node, flat, i) ==
    LET last == Len(flat)
    IN  /\ node.prev = flat[IF i = last THEN 1 ELSE i + 1].docname
        /\ node.prev_text = IF i = last THEN "&olarr; Newest"
                            ELSE "&larr; Previous"
        /\ node.next = flat[IF i = 1 THEN last ELSE i - 1].docname
        /\ node.next_text = IF i = 1 THEN "Oldest &orarr;"
                            ELSE "Next &rarr;"

\* C15 as stated: a post node whose time is shared by several entries of
\* the flat list has the links of the first of these entries.
C15_TiedPostsLinkFromFirstMatch ==
    Aggregated =>
        \A n \in 1 .. Len(doctree.posts) :
            LET node == doctree.posts[n]
                found == Matches(archive_flat, node.time)
            IN  Cardinality(found) >= 2 =>
                    LinkedFrom(node, archive_flat,
                               CHOOSE i \in found : \A j \in found : i <= j)

\* C15 as amended: a post node whose time is shared by several entries of
\* the flat list has the links of the last of these entries.
C15_TiedPostsLinkFromLastMatch ==
    Aggregated =>
        \A n \in 1 .. Len(doctree.posts) :
            LET node == doctree.posts[n]
                found == Matches(archive_flat, node.time)
            IN  Cardinality(found) >= 2 =>
                    LinkedFrom(node, archive_flat,
                               CHOOSE i \in found : \A j \in found : j <= i)

\* The document of a post whose time two other posts share was resolved.
C15_Witness ==
    /\ Aggregated
    /\ \E n \in 1 .. Len(doctree.posts) :
          Cardinality(Matches(archive_flat, doctree.posts[n].time)) = 3

\* C16: the target ids of the posts of the store are pairwise different
\* and increase in the order in which the posts were appended.
C16_TargetIdsDifferAndIncrease ==
    \A i, j \in 1 .. Len(all_posts) :
        i < j =>
            /\ all_posts[i].targetid # all_posts[j].targetid
            /\ SerialOf(all_posts[i].targetid)
                   < SerialOf(all_posts[j].targetid)

\* C17: the recent-posts node of a resolved document holds exactly
\* min(length, number of posts of the store) items, and item i is entry i
\* of the flat list, so the items are the newest posts, newest first.
C17_RecentItemsAreTheNewest ==
    (Aggregated /\ fromdocname = recent_docname) =>
        /\ Len(doctree.recent) = 1
        /\ LET wanted == recent_nodes[1].length
               stored == Len(all_posts)
               items == doctree.recent[1].items
           IN  /\ Len(items) = IF wanted <= stored THEN wanted ELSE stored
               /\ doctree.recent[1].nmax = Len(items)
               /\ \A i \in 1 .. Len(items) :
                      /\ items[i].post = archive_flat[i].post
                      /\ items[i].time = all_posts[items[i].post].time
               /\ \A i \in 1 .. Len(items), p \in 1 .. stored :
                      (\A j \in 1 .. Len(items) : items[j].post # p) =>
                          all_posts[p].time <= items[i].time

\* A recent-posts node of length 1 was filled from a store of two posts
\* whose second is the newer one.
C17_Witness ==
    /\ Aggregated
    /\ fromdocname = recent_docname
    /\ Len(all_posts) = 2
    /\ all_posts[1].time < all_posts[2].time
    /\ recent_nodes[1].length = 1
    /\ Len(doctree.recent[1].items) = 1
    /\ doctree.recent[1].items[1].post = 2

\* C18: every step keeps the entries of the store in place and adds at
\* most one entry, at the end; process_blog_posts and the writing of a
\* document leave the store as it is.
C18_StoreIsAppendOnly ==
    [][/\ Len(all_posts) <= Len(all_posts')
       /\ Len(all_posts') <= Len(all_posts) + 1
       /\ \A i \in 1 .. Len(all_posts) : all_posts'[i] = all_posts[i]
       /\ \A d \in Docs : process_blog_posts(d) => all_posts' = all_posts
       /\ write_doc => all_posts' = all_posts]_vars

\* Two posts were appended, and process_blog_posts ran before the second
\* one and after it.
C18_Witness ==
    /\ Aggregated
    /\ Len(all_posts) = 2
    /\ all_posts[1] # all_posts[2]
    /\ Cardinality(DOMAIN archive_id) = 1
    /\ Cardinality(Keys(archive)) = 2

\* The identifiers of mapping m are of the kind, pairwise different, and
\* their counter values are the first values of a counter that now stands
\* at `counter`.
IdsOfKind(m, kind, counter) ==
    /\ \A k \in DOMAIN m : m[k][1] = kind
    /\ \A k1, k2 \in DOMAIN m : k1 # k2 => m[k1] # m[k2]
    /\ {SerialOf(m[k]) : k \in DOMAIN m} = 0 .. Cardinality(DOMAIN m) - 1
    /\ counter = Cardinality(DOMAIN m)

\* C19: within a kind every identifier is unique; each kind has a counter
\* of its own, which starts at 0 whatever the other kinds were given; and
\* every value issued is above the values issued before it.
C19_IdentifiersUniquePerKind ==
    /\ IdsOfKind(category_id, "category", serialno.category)
    /\ IdsOfKind(tag_id, "tag", serialno.tag)
    /\ IdsOfKind(archive_id, "year", serialno.year)

\* Three categories, two tags and two years have their identifiers.
C19_Witness ==
    /\ Cardinality(DOMAIN category_id) = 3
    /\ Cardinality(DOMAIN tag_id) = 2
    /\ Cardinality(DOMAIN archive_id) = 2

\* C20: the tags of every post of the store form a set: no tag is twice
\* among the tags of one post.
C20_TagsOfAPostFormASet ==
    \A i \in 1 .. Len(all_posts) :
        \A a, b \in 1 .. Len(all_posts[i].tags) :
            a # b => all_posts[i].tags[a] # all_posts[i].tags[b]

\* The sections are those of the grouping, one per key: each is titled with
\* its key and the number of entries of the group and lists the entries of
\* the group in the group's order, newest first.
SectionsOf(sections, grouping) ==
    /\ {sections[i].key : i \in 1 .. Len(sections)} = Keys(grouping)
    /\ Len(sections) = Cardinality(Keys(grouping))
    /\ \A i \in 1 .. Len(sections) :
          LET group == grouping.items[sections[i].key]
          IN  /\ sections[i].count = Len(group)
              /\ sections[i].items = group
              /\ \A a, b \in 1 .. Len(group) :
                     a < b => group[a].time >= group[b].time

\* C21: on the categories page and on the tags page the sections are in
\* ascending key order, on the archive page the newest year is first; each
\* section has the title 'key (n)', n the number of entries of the group,
\* and lists the group newest first.
C21_SectionsInKeyOrder ==
    Aggregated =>
        /\ fromdocname = category_docname =>
              /\ SectionsOf(doctree.category_sections, categories)
              /\ \A i, j \in 1 .. Len(doctree.category_sections) :
                     i < j => CodePoint(doctree.category_sections[i].key)
                                  < CodePoint(doctree.category_sections[j].key)
        /\ fromdocname = tag_docname =>
              /\ SectionsOf(doctree.tag_sections, tags)
              /\ \A i, j \in 1 .. Len(doctree.tag_sections) :
                     i < j => CodePoint(doctree.tag_sections[i].key)
                                  < CodePoint(doctree.tag_sections[j].key)
        /\ fromdocname = archive_docname =>
              /\ SectionsOf(doctree.archive_sections, archive)
              /\ \A i, j \in 1 .. Len(doctree.archive_sections) :
                     i < j => doctree.archive_sections[i].key
                                  > doctree.archive_sections[j].key

\* The archive page was resolved with two years, the older year first seen
\* first, and two posts in one of them.
C21_Witness ==
    /\ Aggregated
    /\ fromdocname = archive_docname
    /\ Len(doctree.archive_sections) = 2
    /\ all_posts[1].year < all_posts[2].year
    /\ \E i \in 1 .. 2 : doctree.archive_sections[i].count = 2

\* The page's name contains '<post_directory>/<key>'.
NamesListing(name, key) ==
    \E i \in 1 .. Len(name) :
        /\ i + Len(post_directory) + Len(key) <= Len(name)
        /\ SubSeq(name, i, i + Len(post_directory) - 1) = post_directory
        /\ name[i + Len(post_directory)] = "/"
        /\ SubSeq(name, i + Len(post_directory) + 1,
                  i + Len(post_directory) + Len(key)) = key

\* C22: after modify_toc the toc of the page is replaced exactly when the
\* name of the page contains '<post_directory>/tags',
\* '<post_directory>/categories' or '<post_directory>/archive'; for every
\* other page the context is the one the builder made.
C22_TocReplacedOnListingPagesOnly ==
    pagename # <<>> =>
        IF \E k \in 1 .. Len(TocKeys) : NamesListing(pagename, TocKeys[k])
        THEN /\ context.toc # PageContext.toc
             /\ context.body = PageContext.body
             /\ \E k \in 1 .. Len(TocKeys) :
                    /\ NamesListing(pagename, TocKeys[k])
                    /\ context.toc = make_toc(doctree, title(TocKeys[k]))
        ELSE context = PageContext

\* The toc of a page that has the directory inside its name, not at its
\* start, was replaced by the two sections of the categories page.
C22_Witness ==
    /\ pagename = <<"m", "y">> \o Blog \o <<"/">> \o TocKeys[2]
    /\ post_directory = Blog
    /\ context.toc.head = <<"C", "a", "t", "e", "g", "o", "r", "i", "e", "s">>
    /\ Len(context.toc.entries) = 2

\* Every category, tag and year of the store has an identifier.
KeysCovered(posts, cat_ids, tag_ids, year_ids) ==
    \A i \in 1 .. Len(posts) :
        /\ posts[i].category \in DOMAIN cat_ids
        /\ \A j \in 1 .. Len(posts[i].tags) :
               posts[i].tags[j] \in DOMAIN tag_ids
        /\ posts[i].year \in DOMAIN year_ids

\* C23: as long as no post directive runs once the identifiers exist, that
\* is when every post directive ran before the first process_blog_posts,
\* each category, tag and year of the store is a key of category_id, tag_id
\* and archive_id, and no lookup raises KeyError. A step that leaves the
\* store alone, from a state without identifiers or from one where the keys
\* are covered, ends in a state where the keys are covered.
C23_KeysCoveredWhenPostsComeFirst ==
    [][(/\ all_posts' = all_posts
        /\ hasattr("category_id") =>
               KeysCovered(all_posts, category_id, tag_id, archive_id))
       => /\ error'.type # "KeyError"
          /\ hasattr("category_id")' =>
                 KeysCovered(all_posts', category_id', tag_id', archive_id')
      ]_vars

\* Three posts of three categories and two years ran before the first
\* process_blog_posts, which gave the three categories their identifiers
\* at once, and the page of a post is resolved.
C23_Witness ==
    /\ Aggregated
    /\ Len(all_posts) = 3
    /\ serialno.category = 3
    /\ serialno.year = 2
    /\ Len(doctree.posts) = 1
    /\ KeysCovered(all_posts, category_id, tag_id, archive_id)

\* The post node of post i of the store after add_next_prev with the flat
\* list in view.
Navigated(i) ==
    add_next_prev([docname |-> all_posts[i].docname,
                   time |-> all_posts[i].time,
                   next |-> "", prev |-> "",
                   next_text |-> "", prev_text |-> ""],
                  archive_flat)

\* The post a link leads to: every post is in a document of its own.
PostAt(docname) ==
    CHOOSE i \in 1 .. Len(all_posts) : all_posts[i].docname = docname

previous(i) == PostAt(Navigated(i).prev)

next(i) == PostAt(Navigated(i).next)

\* previous, k times
RECURSIVE previous_times(_, _)
previous_times(i, k) ==
    IF k = 0 THEN i ELSE previous(previous_times(i, k - 1))

DistinctTimes ==
    \A i, j \in 1 .. Len(all_posts) :
        i # j => all_posts[i].time # all_posts[j].time

\* C24: when the times of the posts of the store are pairwise distinct,
\* next(previous(P)) = P and previous(next(P)) = P for every post P, and
\* following previous from P visits every post once and then returns to P.
C24_PreviousAndNextAreInverse ==
    (Aggregated /\ DistinctTimes) =>
        \A i \in 1 .. Len(all_posts) :
            /\ next(previous(i)) = i
            /\ previous(next(i)) = i
            /\ {previous_times(i, k) : k \in 0 .. Len(all_posts) - 1}
                   = 1 .. Len(all_posts)
            /\ previous_times(i, Len(all_posts)) = i

\* Three posts of distinct times, stored neither oldest first nor newest
\* first, and the page of the oldest, whose previous wraps, is resolved.
C24_Witness ==
    /\ Aggregated
    /\ DistinctTimes
    /\ Len(all_posts) = 3
    /\ all_posts[1].time = 2
    /\ all_posts[2].time = 3
    /\ Len(doctree.posts) = 1
    /\ doctree.posts[1].time = 1
    /\ doctree.posts[1].prev = all_posts[2].docname
    /\ previous(3) = 2

\* The documents of the posts of the store.
PostDocuments == {all_posts[i].docname : i \in 1 .. Len(all_posts)}

\* C25: after process_blog_posts every post node of the document has next,
\* prev, next_text and prev_text set, and next and prev are documents of
\* posts of the store; a node whose time is the time of no entry of the
\* flat list comes back from add_next_prev with none of the four set.
C25_NavigationFieldsSet ==
    /\ Aggregated =>
           \A n \in 1 .. Len(doctree.posts) :
               /\ doctree.posts[n].next \in PostDocuments
               /\ doctree.posts[n].prev \in PostDocuments
               /\ doctree.posts[n].next_text # ""
               /\ doctree.posts[n].prev_text # ""
    /\ (nav # NoNode /\ Matches(flat_list(all_posts), nav.time) = {}) =>
           /\ nav.next = ""
           /\ nav.prev = ""
           /\ nav.next_text = ""
           /\ nav.prev_text = ""

\* The page of a post is resolved, and add_next_prev was called on a node
\* whose time no post of the store has.
C25_Witness ==
    /\ Aggregated
    /\ Len(doctree.posts) = 1
    /\ doctree.posts[1].next # ""
    /\ nav # NoNode
    /\ \A i \in 1 .. Len(all_posts) : all_posts[i].time # nav.time
    /\ nav.next = ""

\* The messages of the four listing directives.
ListingMessages ==
    {"Only one category list is supported!",
     "Only one tag list is supported!",
     "Only one archive list is supported!",
     "Recent posts can only be inserted once!"}

\* C26: the step in which a listing directive raises its ValueError changes
\* nothing but the error: env, with the document names recorded by the
\* first occurrences, is as it was; and env.recent_nodes holds at most one
\* node in every state.
C26_SecondListingLeavesStateAlone ==
    /\ [](Len(recent_nodes) <= 1)
    /\ [][(error'.type = "ValueError" /\ error'.msg \in ListingMessages)
            => UNCHANGED <<envVars, resolveVars, callVars>>]_vars

\* A second recent directive, in another document than the first, has
\* raised its error; the first document and its node are what env holds.
C26_Witness ==
    /\ error.msg = "Recent posts can only be inserted once!"
    /\ error.docname = "blog"
    /\ recent_docname = "index"
    /\ Len(recent_nodes) = 1
    /\ recent_nodes[1].docname = "index"

\* The node is linked to its own document, with both wrap labels.
SelfLinked(node) ==
    /\ node.next = node.docname
    /\ node.prev = node.docname
    /\ node.prev_text = "&olarr; Newest"
    /\ node.next_text = "Oldest &orarr;"

\* C27: with exactly one post in the store, add_next_prev links the node of
\* the post to the post's own document as next and as previous, with the
\* label 'Newest' for previous and 'Oldest' for next.
C27_SinglePostLinksToItself ==
    Len(all_posts) = 1 =>
        /\ Aggregated =>
               \A n \in 1 .. Len(doctree.posts) : SelfLinked(doctree.posts[n])
        /\ (nav # NoNode /\ nav.time = all_posts[1].time) => SelfLinked(nav)

\* The page of the only post is resolved and add_next_prev was called on
\* the node of that post.
C27_Witness ==
    /\ Len(all_posts) = 1
    /\ Aggregated
    /\ Len(doctree.posts) = 1
    /\ doctree.posts[1].prev = "posts/1"
    /\ nav.time = all_posts[1].time
    /\ nav.next = "posts/1"

\* The part of the result before the suffix.
BeforeSuffix == SubSeq(shortened, 1, Len(shortened) - Len(suffix))

\* C28: the result of shorten_text has at most length + len(suffix)
\* characters; when the text is longer than the length the result ends with
\* the suffix, and what is before the suffix is a prefix of the text of at
\* most `length` characters, the first `length` characters themselves when
\* there is no space among them.
C28_ShortenTextBounds ==
    caller = "shorten_text" =>
        /\ Len(shortened) <= length + Len(suffix)
        /\ Len(text) > length =>
              /\ Len(shortened) >= Len(suffix)
              /\ SubSeq(shortened, Len(shortened) - Len(suffix) + 1,
                        Len(shortened)) = suffix
              /\ Len(BeforeSuffix) <= length
              /\ BeforeSuffix = SubSeq(text, 1, Len(BeforeSuffix))
              /\ (\A i \in 1 .. length : text[i] # " ") =>
                     BeforeSuffix = SubSeq(text, 1, length)

\* A text with a space among its first characters was cut at the space and
\* a suffix other than the default was added.
C28_Witness ==
    /\ caller = "shorten_text"
    /\ Len(text) > length
    /\ suffix = <<" ", "x">>
    /\ \E i \in 2 .. length : text[i] = " "
    /\ Len(BeforeSuffix) < length
    /\ Len(BeforeSuffix) > 0

\* C29: called on the same node with the flat list of the same store, the
\* add_next_prev of blogpost.py and the one of __init__.py set the same
\* next and prev, wrap in the same cases and leave the node alone in the
\* same cases; the labels they set differ in their text only.
C29_LegacyNavigationAgrees ==
    nav # NoNode =>
        /\ legacy_nav.docname = nav.docname
        /\ legacy_nav.time = nav.time
        /\ legacy_nav.next = nav.next
        /\ legacy_nav.prev = nav.prev
        /\ legacy_nav.prev_text = "Newest &olarr;"
               <=> nav.prev_text = "&olarr; Newest"
        /\ legacy_nav.prev_text = "Previous &rarr;"
               <=> nav.prev_text = "&larr; Previous"
        /\ legacy_nav.next_text = "&orarr; Oldest"
               <=> nav.next_text = "Oldest &orarr;"
        /\ legacy_nav.next_text = "&larr; Next"
               <=> nav.next_text = "Next &rarr;"
        /\ legacy_nav.prev_text = "" <=> nav.prev_text = ""
        /\ legacy_nav.next_text = "" <=> nav.next_text = ""

\* Both were called on the node of the oldest of three posts, two of which
\* share a time: previous wraps in both, next does not.
C29_Witness ==
    /\ Len(all_posts) = 3
    /\ all_posts[1].time = all_posts[3].time
    /\ all_posts[2].time < all_posts[1].time
    /\ nav.time = all_posts[2].time
    /\ nav.prev_text = "&olarr; Newest"
    /\ legacy_nav.prev_text = "Newest &olarr;"
    /\ nav.next_text = "Next &rarr;"
    /\ legacy_nav.next_text = "&larr; Next"
    /\ legacy_nav.next = "posts/3"

====
